---- MODULE Spec2Model ----
(***************************************************************************)
(* Model of worker.py: the periodic fulfilment worker.  One poll is        *)
(* main(): get_orders, the ledger loop (upsert_order_status for every      *)
(* order), then the processing loop (eligibility filter,                   *)
(* order_already_processed, reserve_accounts, deliver_digital_goods,       *)
(* mark_as_sold).  main_loop() catches whatever main() raises and polls    *)
(* again after the sleep.                                                  *)
(***************************************************************************)
EXTENDS Integers, Sequences, FiniteSets, TLC

\* ------------------------------------------------------------------ bounds
NumUnits == 3        \* rows of digital_accounts (the fixed pool)
NumOrderIds == 2     \* distinct order identifiers the source returns
MaxBatch == 2        \* orders in one get_orders() response
MaxPolls == 2        \* iterations of main_loop
NumConns == 2        \* connections running reserve_accounts at the same time

NULL == 0            \* SQL NULL / Python None / a missing JSON key

Units == 1..NumUnits
OrderIds == 1..NumOrderIds
Conns == 1..NumConns

\* ------------------------------------------------------- order source input
\* Values of item["count"] in the source's JSON: a quantity, zero, a negative
\* number.
Counts == {-1, 0, 1, 2}

\* item["count"] as the JSON carries it: <<c>> when the key is present, <<>>
\* when it is missing.
Present(c) == <<c>>
Missing == <<>>

Order(oid, st, pay, del, item, cnt) ==
    [orderId |-> oid, status |-> st, paymentType |-> pay,
     deliveryType |-> del, itemId |-> item, count |-> cnt]

\* The order snapshots the source returns in this model: for every order id
\* the eligible order with each count, with the count key missing, with
\* another line item, with the line item's id missing, and the three orders
\* that fail the eligibility filter on exactly one field.
OrderInputs ==
    UNION { {Order(oid, "PROCESSING", "PREPAID", "DIGITAL", 7, Present(c)) : c \in Counts}
            \cup {Order(oid, "PROCESSING", "PREPAID", "DIGITAL", 7, Missing),
                  Order(oid, "PROCESSING", "PREPAID", "DIGITAL", 8, Present(1)),
                  Order(oid, "PROCESSING", "PREPAID", "DIGITAL", NULL, Present(1)),
                  Order(oid, "DELIVERED", "PREPAID", "DIGITAL", 7, Present(1)),
                  Order(oid, "PROCESSING", "POSTPAID", "DIGITAL", 7, Present(1)),
                  Order(oid, "PROCESSING", "PREPAID", "DELIVERY", 7, Present(1))}
          : oid \in OrderIds }

Batches == UNION { [1..n -> OrderInputs] : n \in 0..MaxBatch }

\* ------------------------------------------------------------------- state
VARIABLES
    inv,          \* table digital_accounts: unit id -> row
    ledger,       \* table orders_status: set of rows
    polls,        \* polls started so far
    pc,           \* position of main(): idle, ledger, filter, reserve, deliver, mark
    orders,       \* main(): the batch returned by get_orders()
    i,            \* main(): index of the order the current loop is at
    accounts,     \* main(): ids of the rows reserve_accounts returned
    deliverCalls, \* history: gateway invocations per order id
    acked,        \* history: order ids whose delivery the gateway acknowledged
    failed,       \* history: order ids whose delivery call failed
    held,         \* history: order id -> units its successful reservation returned
    finalized,    \* history: order ids for which mark_as_sold completed
    wanted,       \* history: order id -> count requested when it was finalized
    fetchFailed,  \* history: the latest get_orders() call raised
    deferredAt,   \* history: order id -> latest poll that deferred it for lack of units
    conn,         \* connection -> its reserve_accounts call: position, arguments, rows selected
    lock          \* the connection holding the database's write lock, or NULL

vars == <<inv, ledger, polls, pc, orders, i, accounts,
          deliverCalls, acked, failed, held, finalized, wanted,
          fetchFailed, deferredAt, conn, lock>>

\* The state of concurrent reserve_accounts calls.
txn == <<conn, lock>>

history == <<deliverCalls, acked, failed, held, finalized, wanted>>

FreeRow == [status |-> "free", order_id |-> NULL, reserved_at |-> NULL, sold_at |-> NULL]

\* A connection that has not called reserve_accounts.
NoCall == [pc |-> "none", count |-> 0, sel |-> {}]

Init ==
    /\ inv = [u \in Units |-> FreeRow]
    /\ ledger = {}
    /\ polls = 0
    /\ pc = "idle"
    /\ orders = <<>>
    /\ i = 0
    /\ accounts = {}
    /\ deliverCalls = [o \in OrderIds |-> 0]
    /\ acked = {}
    /\ failed = {}
    /\ held = [o \in OrderIds |-> {}]
    /\ finalized = {}
    /\ wanted = [o \in OrderIds |-> 0]
    /\ fetchFailed = FALSE
    /\ deferredAt = [o \in OrderIds |-> 0]
    /\ conn = [c \in Conns |-> NoCall]
    /\ lock = NULL

\* ------------------------------------------------------- orders_status (DB)
\* Variant: the status comparison is missing, every re-observation updates.
upsert_order_status_AlwaysUpdate(tbl, o, ts) ==
    LET rows == {r \in tbl : r.order_id = o.orderId}
    IN  IF rows = {}
        THEN tbl \cup {[order_id |-> o.orderId, id |-> o.itemId, status |-> o.status,
                        payment_type |-> o.paymentType, delivery_type |-> o.deliveryType,
                        first_seen_at |-> ts, last_updated_at |-> ts]}
        ELSE (tbl \ rows) \cup {[r EXCEPT !.id = o.itemId, !.status = o.status,
                                          !.payment_type = o.paymentType,
                                          !.delivery_type = o.deliveryType,
                                          !.last_updated_at = ts] : r \in rows}

\* Variant: the elif branch is missing, a known order is never updated.
upsert_order_status_NoUpdate(tbl, o, ts) ==
    IF {r \in tbl : r.order_id = o.orderId} = {}
    THEN tbl \cup {[order_id |-> o.orderId, id |-> o.itemId, status |-> o.status,
                    payment_type |-> o.paymentType, delivery_type |-> o.deliveryType,
                    first_seen_at |-> ts, last_updated_at |-> ts]}
    ELSE tbl

\* upsert_order_status: the table after observing order o at time ts.
upsert_order_status(tbl, o, ts) ==
    LET rows == {r \in tbl : r.order_id = o.orderId}
        fresh == [order_id |-> o.orderId, id |-> o.itemId, status |-> o.status,
                  payment_type |-> o.paymentType, delivery_type |-> o.deliveryType,
                  first_seen_at |-> ts, last_updated_at |-> ts]
        Updated(r) == [r EXCEPT !.id = o.itemId, !.status = o.status,
                                !.payment_type = o.paymentType,
                                !.delivery_type = o.deliveryType,
                                !.last_updated_at = ts]
    IN  IF rows = {}
        THEN tbl \cup {fresh}
        ELSE IF (CHOOSE r \in rows : TRUE).status # o.status
             THEN (tbl \ rows) \cup {Updated(r) : r \in rows}
             ELSE tbl

\* ----------------------------------------------------- digital_accounts (DB)
\* Variant: the idempotency check looks for sold rows only.
order_already_processed_SoldOnly(t, oid) ==
    \E u \in Units : t[u].order_id # NULL /\ t[u].order_id = oid /\ t[u].status = "sold"

\* Variant: the idempotency check looks for reserved rows only.
order_already_processed_ReservedOnly(t, oid) ==
    \E u \in Units : t[u].order_id # NULL /\ t[u].order_id = oid /\ t[u].status = "reserved"

\* order_already_processed: SELECT 1 FROM digital_accounts WHERE order_id = ?
order_already_processed(t, oid) ==
    \E u \in Units : t[u].order_id # NULL /\ t[u].order_id = oid

FreeUnits(t) == {u \in Units : t[u].status = "free"}

Min(a, b) == IF a < b THEN a ELSE b

\* Variant: the SELECT has no WHERE status = 'free'.
SelectFree_AnyStatus(t, count) ==
    IF count < 0
    THEN {Units}
    ELSE {S \in SUBSET Units : Cardinality(S) = Min(count, NumUnits)}

\* SELECT * FROM digital_accounts WHERE status = 'free' LIMIT count: the row
\* sets the query may return.  The query has no ORDER BY, so which free rows
\* come back is the datastore's choice; a negative LIMIT is no limit.
SelectFree(t, count) ==
    IF count < 0
    THEN {FreeUnits(t)}
    ELSE {S \in SUBSET FreeUnits(t) : Cardinality(S) = Min(count, Cardinality(FreeUnits(t)))}

\* Variant: the UPDATE does not set order_id.
UpdateReserved_NoOwner(t, oid, ids, ts) ==
    [u \in Units |->
        IF u \in ids
        THEN [t[u] EXCEPT !.status = "reserved", !.reserved_at = ts]
        ELSE t[u]]

\* UPDATE digital_accounts SET status = 'reserved', order_id = ?, reserved_at = ?
\* WHERE id IN (ids)
UpdateReserved(t, oid, ids, ts) ==
    [u \in Units |->
        IF u \in ids
        THEN [t[u] EXCEPT !.status = "reserved", !.order_id = oid, !.reserved_at = ts]
        ELSE t[u]]

\* Variant: no len(accounts) < count check, whatever was selected is reserved.
reserve_accounts_Partial(t, oid, count, S, ts) ==
    [none |-> FALSE, accounts |-> S, inv |-> UpdateReserved(t, oid, S, ts)]

\* Variant: len(accounts) <= count instead of len(accounts) < count.
reserve_accounts_OffByOne(t, oid, count, S, ts) ==
    IF Cardinality(S) <= count
    THEN [none |-> TRUE, accounts |-> {}, inv |-> t]
    ELSE [none |-> FALSE, accounts |-> S, inv |-> UpdateReserved(t, oid, S, ts)]

\* reserve_accounts once the SELECT returned the rows S: the value returned
\* (None, or the list of rows) and the table after the commit or rollback.
reserve_accounts(t, oid, count, S, ts) ==
    IF Cardinality(S) < count
    THEN [none |-> TRUE, accounts |-> {}, inv |-> t]
    ELSE [none |-> FALSE, accounts |-> S, inv |-> UpdateReserved(t, oid, S, ts)]

\* The statements of the reservation transaction at which a datastore error
\* can be raised: BEGIN IMMEDIATE, the SELECT, the UPDATE, the commit.
FailPoints == {"begin", "select", "update", "commit"}

\* The connection's uncommitted view of the table when the error is raised at
\* `point`: a failed statement changes nothing, so only a failed commit has
\* the UPDATE of the selected rows S pending.
PendingAt(t, point, oid, S, ts) ==
    IF point = "commit" THEN UpdateReserved(t, oid, S, ts) ELSE t

\* Variant: the except branch commits the pending writes instead of rolling back.
rollback_KeepsPending(committed, pending) == pending

\* except Exception: conn.rollback() -- the pending writes are dropped and
\* the table is the committed one.
rollback(committed, pending) == committed

\* Variant: WHERE status = 'reserved' instead of WHERE order_id = ?.
mark_as_sold_AllReserved(t, oid, ts) ==
    [u \in Units |->
        IF t[u].status = "reserved"
        THEN [t[u] EXCEPT !.status = "sold", !.sold_at = ts]
        ELSE t[u]]

\* Variant: the UPDATE has no WHERE clause.
mark_as_sold_AllRows(t, oid, ts) ==
    [u \in Units |-> [t[u] EXCEPT !.status = "sold", !.sold_at = ts]]

\* mark_as_sold: UPDATE digital_accounts SET status = 'sold', sold_at = ?
\* WHERE order_id = ?
mark_as_sold(t, oid, ts) ==
    [u \in Units |->
        IF t[u].order_id # NULL /\ t[u].order_id = oid
        THEN [t[u] EXCEPT !.status = "sold", !.sold_at = ts]
        ELSE t[u]]

\* --------------------------------------------------------------------- main
\* Variant: the filter does not test the delivery type.
Eligible_NoDeliveryTest(o) ==
    /\ o.status = "PROCESSING"
    /\ o.paymentType = "PREPAID"

\* The eligibility filter of the processing loop.
Eligible(o) ==
    /\ o.status = "PROCESSING"
    /\ o.paymentType = "PREPAID"
    /\ o.deliveryType = "DIGITAL"

\* count = item.get("count", 1)
CountOf(o) == IF o.count = Missing THEN 1 ELSE o.count[1]

Cur == orders[i]

\* datetime.now(timezone.utc): the clock is strictly increasing, so every read
\* returns a later time than all reads before it.  A poll makes at most
\* ReadsPerPoll reads: one per upsert, then for each order one in
\* reserve_accounts and one in mark_as_sold.
ReadsPerPoll == 3 * MaxBatch
PollStart == (polls - 1) * ReadsPerPoll
UpsertTime == PollStart + i
ReserveTime == PollStart + MaxBatch + 2 * i - 1
SoldTime == PollStart + MaxBatch + 2 * i

\* main() returns or raises: main_loop sleeps until the next poll.
EndPoll ==
    /\ pc' = "idle"
    /\ orders' = <<>>
    /\ i' = 0
    /\ accounts' = {}

\* `continue`, or the end of the try/except body: the next order of the
\* processing loop, or the end of main().
NextOrder ==
    IF i < Len(orders)
    THEN /\ pc' = "filter"
         /\ i' = i + 1
         /\ accounts' = {}
         /\ UNCHANGED orders
    ELSE EndPoll

\* get_orders() returns a batch.
GetOrders ==
    /\ pc = "idle"
    /\ polls < MaxPolls
    /\ polls' = polls + 1
    /\ \E b \in Batches :
          IF Len(b) = 0
          THEN EndPoll
          ELSE /\ orders' = b
               /\ i' = 1
               /\ pc' = "ledger"
               /\ accounts' = {}
    /\ fetchFailed' = FALSE
    /\ UNCHANGED txn
    /\ UNCHANGED <<inv, ledger, history, deferredAt>>

\* Variant: main_loop has no try/except, the worker stops on a source error.
GetOrdersFails_Stops ==
    /\ pc = "idle"
    /\ polls < MaxPolls
    /\ polls' = polls + 1
    /\ pc' = "stopped"
    /\ orders' = <<>>
    /\ i' = 0
    /\ accounts' = {}
    /\ fetchFailed' = TRUE
    /\ UNCHANGED txn
    /\ UNCHANGED <<inv, ledger, history, deferredAt>>

\* get_orders() raises (timeout, non-2xx): main() ends before any write.
GetOrdersFails ==
    /\ pc = "idle"
    /\ polls < MaxPolls
    /\ polls' = polls + 1
    /\ EndPoll
    /\ fetchFailed' = TRUE
    /\ UNCHANGED txn
    /\ UNCHANGED <<inv, ledger, history, deferredAt>>

\* Variant: the ledger loop handles the first order only.
Upsert_FirstOnly ==
    /\ pc = "ledger"
    /\ ledger' = upsert_order_status(ledger, Cur, UpsertTime)
    /\ i' = 1
    /\ pc' = "filter"
    /\ UNCHANGED txn
    /\ UNCHANGED <<inv, polls, orders, accounts, history, fetchFailed, deferredAt>>

\* One iteration of `for order in orders: upsert_order_status(order)`.
Upsert ==
    /\ pc = "ledger"
    /\ ledger' = upsert_order_status(ledger, Cur, UpsertTime)
    /\ IF i < Len(orders)
       THEN i' = i + 1 /\ pc' = "ledger"
       ELSE i' = 1 /\ pc' = "filter"
    /\ UNCHANGED txn
    /\ UNCHANGED <<inv, polls, orders, accounts, history, fetchFailed, deferredAt>>

\* upsert_order_status raises (datastore error): the ledger loop is outside
\* any try, so main() ends.
UpsertFails ==
    /\ pc = "ledger"
    /\ EndPoll
    /\ UNCHANGED txn
    /\ UNCHANGED <<inv, ledger, polls, history, fetchFailed, deferredAt>>

\* The order fails the eligibility filter: continue.
SkipIneligible ==
    /\ pc = "filter"
    /\ ~Eligible(Cur)
    /\ NextOrder
    /\ UNCHANGED txn
    /\ UNCHANGED <<inv, ledger, polls, history, fetchFailed, deferredAt>>

\* order_already_processed raises: the call is before the try, main() ends.
CheckFails ==
    /\ pc = "filter"
    /\ Eligible(Cur)
    /\ EndPoll
    /\ UNCHANGED txn
    /\ UNCHANGED <<inv, ledger, polls, history, fetchFailed, deferredAt>>

\* order_already_processed returns True: log and continue.
SkipProcessed ==
    /\ pc = "filter"
    /\ Eligible(Cur)
    /\ order_already_processed(inv, Cur.orderId)
    /\ NextOrder
    /\ UNCHANGED txn
    /\ UNCHANGED <<inv, ledger, polls, history, fetchFailed, deferredAt>>

\* item["id"] raises KeyError inside the try: logged, next order.
ExtractFails ==
    /\ pc = "filter"
    /\ Eligible(Cur)
    /\ ~order_already_processed(inv, Cur.orderId)
    /\ Cur.itemId = NULL
    /\ NextOrder
    /\ UNCHANGED txn
    /\ UNCHANGED <<inv, ledger, polls, history, fetchFailed, deferredAt>>

\* The order passes the filter and the idempotency check; item, item_id and
\* count are read; reserve_accounts is about to be called.
BeginProcessing ==
    /\ pc = "filter"
    /\ Eligible(Cur)
    /\ ~order_already_processed(inv, Cur.orderId)
    /\ Cur.itemId # NULL
    /\ pc' = "reserve"
    /\ UNCHANGED txn
    /\ UNCHANGED <<inv, ledger, polls, orders, i, accounts, history, fetchFailed, deferredAt>>

\* reserve_accounts returns a non-empty list of rows.
ReserveOk ==
    /\ pc = "reserve"
    /\ \E S \in SelectFree(inv, CountOf(Cur)) :
          LET r == reserve_accounts(inv, Cur.orderId, CountOf(Cur), S, ReserveTime)
          IN  /\ ~r.none
              /\ r.accounts # {}
              /\ inv' = r.inv
              /\ accounts' = r.accounts
              /\ held' = [held EXCEPT ![Cur.orderId] = r.accounts]
    /\ pc' = "deliver"
    /\ UNCHANGED txn
    /\ UNCHANGED <<ledger, polls, orders, i, deliverCalls, acked, failed, finalized, wanted,
                   fetchFailed, deferredAt>>

\* reserve_accounts returns None (rollback) or an empty list: `not accounts`,
\* the warning is logged, continue.
ReserveDeferred ==
    /\ pc = "reserve"
    /\ \E S \in SelectFree(inv, CountOf(Cur)) :
          LET r == reserve_accounts(inv, Cur.orderId, CountOf(Cur), S, ReserveTime)
          IN  /\ r.none \/ r.accounts = {}
              /\ inv' = r.inv
              /\ deferredAt' = IF r.none
                                THEN [deferredAt EXCEPT ![Cur.orderId] = polls]
                                ELSE deferredAt
    /\ NextOrder
    /\ UNCHANGED txn
    /\ UNCHANGED <<ledger, polls, history, fetchFailed>>

\* A datastore error inside reserve_accounts: rollback, re-raised, caught by
\* the per-order handler.
ReserveFails ==
    /\ pc = "reserve"
    /\ \E point \in FailPoints :
       \E S \in SelectFree(inv, CountOf(Cur)) :
          /\ point \in {"update", "commit"} => Cardinality(S) >= CountOf(Cur)
          /\ inv' = rollback(inv, PendingAt(inv, point, Cur.orderId, S, ReserveTime))
    /\ NextOrder
    /\ UNCHANGED txn
    /\ UNCHANGED <<ledger, polls, history, fetchFailed, deferredAt>>

\* deliver_digital_goods returns: the gateway acknowledged.
DeliverOk ==
    /\ pc = "deliver"
    /\ deliverCalls' = [deliverCalls EXCEPT ![Cur.orderId] = @ + 1]
    /\ acked' = acked \cup {Cur.orderId}
    /\ pc' = "mark"
    /\ UNCHANGED txn
    /\ UNCHANGED <<inv, ledger, polls, orders, i, accounts, failed, held, finalized, wanted,
                   fetchFailed, deferredAt>>

\* Variant: the delivery error is swallowed and mark_as_sold still runs.
DeliverFails_Swallowed ==
    /\ pc = "deliver"
    /\ deliverCalls' = [deliverCalls EXCEPT ![Cur.orderId] = @ + 1]
    /\ failed' = failed \cup {Cur.orderId}
    /\ pc' = "mark"
    /\ UNCHANGED txn
    /\ UNCHANGED <<inv, ledger, polls, orders, i, accounts, acked, held, finalized, wanted,
                   fetchFailed, deferredAt>>

\* deliver_digital_goods raises (timeout, non-2xx): caught by the per-order
\* handler, next order.
DeliverFails ==
    /\ pc = "deliver"
    /\ deliverCalls' = [deliverCalls EXCEPT ![Cur.orderId] = @ + 1]
    /\ failed' = failed \cup {Cur.orderId}
    /\ NextOrder
    /\ UNCHANGED txn
    /\ UNCHANGED <<inv, ledger, polls, acked, held, finalized, wanted, fetchFailed, deferredAt>>

\* mark_as_sold(order_id) commits.
MarkSold ==
    /\ pc = "mark"
    /\ inv' = mark_as_sold(inv, Cur.orderId, SoldTime)
    /\ finalized' = finalized \cup {Cur.orderId}
    /\ wanted' = [wanted EXCEPT ![Cur.orderId] = CountOf(Cur)]
    /\ NextOrder
    /\ UNCHANGED txn
    /\ UNCHANGED <<ledger, polls, deliverCalls, acked, failed, held, fetchFailed, deferredAt>>

\* mark_as_sold raises before its commit: caught by the per-order handler.
MarkSoldFails ==
    /\ pc = "mark"
    /\ NextOrder
    /\ UNCHANGED txn
    /\ UNCHANGED <<inv, ledger, polls, history, fetchFailed, deferredAt>>

Next ==
    \/ GetOrders
    \/ GetOrdersFails
    \/ Upsert
    \/ UpsertFails
    \/ SkipIneligible
    \/ CheckFails
    \/ SkipProcessed
    \/ ExtractFails
    \/ BeginProcessing
    \/ ReserveOk
    \/ ReserveDeferred
    \/ ReserveFails
    \/ DeliverOk
    \/ DeliverFails
    \/ MarkSold
    \/ MarkSoldFails

Spec == Init /\ [][Next]_vars

\* ------------------------------------------- mark_as_sold called twice
\* Any content of digital_accounts: every unit in any state with any owner.
AnyRow(st, o) ==
    [status |-> st, order_id |-> o,
     reserved_at |-> IF st = "free" THEN NULL ELSE 1,
     sold_at |-> IF st = "sold" THEN 1 ELSE NULL]

AnyTables ==
    [Units -> {AnyRow(st, o) : st \in {"free", "reserved", "sold"},
                               o \in OrderIds \cup {NULL}}]

\* mark_as_sold(order_id) is about to be called on some table for some order.
InitMark ==
    /\ inv \in AnyTables
    /\ \E o \in OrderIds :
          orders = <<Order(o, "PROCESSING", "PREPAID", "DIGITAL", 7, Present(1))>>
    /\ i = 1
    /\ pc = "mark1"
    /\ polls = 1
    /\ ledger = {}
    /\ accounts = {}
    /\ deliverCalls = [o \in OrderIds |-> 0]
    /\ acked = {}
    /\ failed = {}
    /\ held = [o \in OrderIds |-> {}]
    /\ finalized = {}
    /\ wanted = [o \in OrderIds |-> 0]
    /\ fetchFailed = FALSE
    /\ deferredAt = [o \in OrderIds |-> 0]
    /\ conn = [c \in Conns |-> NoCall]
    /\ lock = NULL

\* The first mark_as_sold(order_id) call.
MarkOnce ==
    /\ pc = "mark1"
    /\ inv' = mark_as_sold(inv, Cur.orderId, SoldTime)
    /\ pc' = "mark2"
    /\ UNCHANGED <<ledger, polls, orders, i, accounts, history, fetchFailed, deferredAt, txn>>

\* The second mark_as_sold(order_id) call, at a later time.
MarkAgain ==
    /\ pc = "mark2"
    /\ inv' = mark_as_sold(inv, Cur.orderId, SoldTime + 1)
    /\ pc' = "marked"
    /\ UNCHANGED <<ledger, polls, orders, i, accounts, history, fetchFailed, deferredAt, txn>>

NextMark ==
    \/ MarkOnce
    \/ MarkAgain

SpecMark == InitMark /\ [][NextMark]_vars

\* --------------------------------- reserve_accounts on several connections
\* Every connection c runs reserve_accounts(c, count) once, on its own
\* connection to the same database file.  conn[c].pc is the statement the
\* call has completed: none, begun, selected, updated, and the outcomes
\* rows (committed), nothing (None returned after rollback), raised.

\* The order that owns the units that are not free at the start.
OtherOrder == NumConns + 1

\* The time connection c stamps on the rows it reserves.
ConnTime(c) == c

InTransaction(c) == conn[c].pc \in {"begun", "selected", "updated"}

\* Variant: a plain BEGIN, which takes no lock before the first write.
CanBegin_Deferred(holder) == TRUE

\* BEGIN IMMEDIATE takes the database's write lock at once: it succeeds only
\* while no other connection holds it.
CanBegin(holder) == holder = NULL

\* commit, rollback and close give the write lock back.
Release(c) == IF lock = c THEN NULL ELSE lock

InitConc ==
    /\ \E F \in SUBSET Units :
          inv = [u \in Units |-> IF u \in F
                                 THEN FreeRow
                                 ELSE [status |-> "sold", order_id |-> OtherOrder,
                                       reserved_at |-> NULL, sold_at |-> NULL]]
    /\ conn = [c \in Conns |-> NoCall]
    /\ lock = NULL
    /\ ledger = {}
    /\ polls = 0
    /\ pc = "idle"
    /\ orders = <<>>
    /\ i = 0
    /\ accounts = {}
    /\ deliverCalls = [o \in OrderIds |-> 0]
    /\ acked = {}
    /\ failed = {}
    /\ held = [o \in OrderIds |-> {}]
    /\ finalized = {}
    /\ wanted = [o \in OrderIds |-> 0]
    /\ fetchFailed = FALSE
    /\ deferredAt = [o \in OrderIds |-> 0]

mainState == <<ledger, polls, pc, orders, i, accounts, history, fetchFailed, deferredAt>>

\* cur.execute("BEGIN IMMEDIATE") returns.
TxBegin(c) ==
    /\ conn[c].pc = "none"
    /\ CanBegin(lock)
    /\ lock' = c
    /\ \E n \in Counts : conn' = [conn EXCEPT ![c] = [pc |-> "begun", count |-> n, sel |-> {}]]
    /\ UNCHANGED <<inv, mainState>>

\* BEGIN IMMEDIATE finds the lock held until the busy timeout (30 s) ends:
\* sqlite3.OperationalError, rollback, raise.
TxBusy(c) ==
    /\ conn[c].pc = "none"
    /\ ~CanBegin(lock)
    /\ \E n \in Counts : conn' = [conn EXCEPT ![c] = [pc |-> "raised", count |-> n, sel |-> {}]]
    /\ UNCHANGED <<inv, lock, mainState>>

\* The SELECT of free rows and fetchall().
TxSelect(c) ==
    /\ conn[c].pc = "begun"
    /\ \E S \in SelectFree(inv, conn[c].count) :
          conn' = [conn EXCEPT ![c].pc = "selected", ![c].sel = S]
    /\ UNCHANGED <<inv, lock, mainState>>

\* len(accounts) < count: rollback, return None.
TxInsufficient(c) ==
    /\ conn[c].pc = "selected"
    /\ reserve_accounts(inv, c, conn[c].count, conn[c].sel, ConnTime(c)).none
    /\ conn' = [conn EXCEPT ![c].pc = "nothing", ![c].sel = {}]
    /\ lock' = Release(c)
    /\ UNCHANGED <<inv, mainState>>

\* The UPDATE of the selected rows, not yet committed.
TxUpdate(c) ==
    /\ conn[c].pc = "selected"
    /\ ~reserve_accounts(inv, c, conn[c].count, conn[c].sel, ConnTime(c)).none
    /\ conn' = [conn EXCEPT ![c].pc = "updated"]
    /\ UNCHANGED <<inv, lock, mainState>>

\* conn.commit(): the UPDATE of the selected rows reaches the table; the rows
\* are returned.
TxCommit(c) ==
    /\ conn[c].pc = "updated"
    /\ inv' = UpdateReserved(inv, c, conn[c].sel, ConnTime(c))
    /\ conn' = [conn EXCEPT ![c].pc = "rows"]
    /\ lock' = Release(c)
    /\ UNCHANGED mainState

\* A datastore error inside the transaction: rollback, raise.
TxFails(c) ==
    /\ InTransaction(c)
    /\ inv' = rollback(inv, IF conn[c].pc = "updated"
                            THEN UpdateReserved(inv, c, conn[c].sel, ConnTime(c))
                            ELSE inv)
    /\ conn' = [conn EXCEPT ![c].pc = "raised", ![c].sel = {}]
    /\ lock' = Release(c)
    /\ UNCHANGED mainState

NextConc ==
    \E c \in Conns :
        \/ TxBegin(c)
        \/ TxBusy(c)
        \/ TxSelect(c)
        \/ TxInsufficient(c)
        \/ TxUpdate(c)
        \/ TxCommit(c)
        \/ TxFails(c)

SpecConc == InitConc /\ [][NextConc]_vars

\* ================================================================== claims
Claimed == {"reserved", "sold"}

BoundTo(t, o) == {u \in Units : t[u].order_id = o}

SoldTo(t, o) == {u \in Units : t[u].order_id = o /\ t[u].status = "sold"}

Processing == pc \in {"reserve", "deliver", "mark"}

\* The order is not a prepaid digital order in status PROCESSING.
FailsFilter(o) ==
    \/ o.status # "PROCESSING"
    \/ o.paymentType # "PREPAID"
    \/ o.deliveryType # "DIGITAL"

\* C1: no unit is ever bound to two different orders: a unit stamped with an
\* order id keeps that id in every later step, the rows a reservation gets
\* back from its SELECT carry no order id, and the units reserved or sold
\* never outnumber the pool.
C1_NoUnitBoundTwice ==
    [][ /\ \A u \in Units : inv[u].order_id # NULL => inv'[u].order_id = inv[u].order_id
        /\ (pc = "reserve" /\ pc' = "deliver") =>
              \A u \in accounts' : inv[u].order_id = NULL /\ inv'[u].order_id = Cur.orderId
        /\ Cardinality({u \in Units : inv'[u].status \in Claimed}) <= NumUnits
      ]_vars

\* C1 witness: two different orders each own a unit of the pool.
C1_Witness ==
    \E o1, o2 \in OrderIds : o1 # o2 /\ BoundTo(inv, o1) # {} /\ BoundTo(inv, o2) # {}

\* C2: reservation is all-or-nothing: called with fewer than count free units,
\* reserve_accounts returns None whatever rows the SELECT gave it, and the
\* step leaves every row of the inventory (state, order id, timestamps) as
\* it was and does not go on to delivery.
C2_AllOrNothing ==
    [][ (pc = "reserve" /\ Cardinality(FreeUnits(inv)) < CountOf(Cur)) =>
          /\ \A S \in SelectFree(inv, CountOf(Cur)) :
                LET r == reserve_accounts(inv, Cur.orderId, CountOf(Cur), S, ReserveTime)
                IN  r.none /\ r.inv = inv
          /\ inv' = inv
          /\ pc' # "deliver"
      ]_vars

\* C2 witness: reserve_accounts returned for an order that wants 2 units
\* while exactly 1 was free, and the worker is at the next order.
C2_Witness ==
    /\ pc = "filter"
    /\ i = 2
    /\ Eligible(orders[1])
    /\ orders[1].itemId # NULL
    /\ CountOf(orders[1]) = 2
    /\ Cardinality(FreeUnits(inv)) = 1
    /\ BoundTo(inv, orders[1].orderId) = {}

\* C3 (as claimed): an order whose delivery succeeded and whose mark_as_sold
\* completed has exactly count units sold and bound to it, count being the
\* quantity of its first line item.
C3_ExactlyCountSold ==
    \A o \in finalized : Cardinality(SoldTo(inv, o)) = wanted[o]

\* C4: the Delivery Gateway is invoked at most once for any order id.
C4_DeliverAtMostOnce ==
    \A o \in OrderIds : deliverCalls[o] <= 1

\* C4 witness: an order whose delivery call failed in the first poll comes
\* back eligible in the second poll.
C4_Witness ==
    /\ polls = 2
    /\ pc = "filter"
    /\ Eligible(Cur)
    /\ Cur.itemId # NULL
    /\ Cur.orderId \in failed
    /\ deliverCalls[Cur.orderId] = 1

\* C5: an order that has a sold unit bound to it is skipped before any
\* reservation: from the filter it never reaches reserve_accounts, the step
\* changes no unit and calls no delivery, and no order being reserved,
\* delivered or marked has a sold unit.
C5_SoldOrderSkipped ==
    [][ /\ (pc = "filter" /\ SoldTo(inv, Cur.orderId) # {}) =>
              /\ ~Processing'
              /\ inv' = inv
              /\ deliverCalls' = deliverCalls
        /\ Processing' => SoldTo(inv', orders'[i'].orderId) = {}
      ]_vars

\* C5 witness: a later poll has skipped an eligible order that owns a sold
\* unit and is at the next order of the batch.
C5_Witness ==
    /\ polls = 2
    /\ pc = "filter"
    /\ i = 2
    /\ Eligible(orders[1])
    /\ orders[1].itemId # NULL
    /\ orders[1].orderId \notin failed
    /\ SoldTo(inv, orders[1].orderId) # {}
    /\ deliverCalls[orders[1].orderId] = 1

\* C6: after a failed delivery the units reserved for the order stay reserved
\* and bound to it for good, and the step that takes the failure goes on to
\* the next order of the batch.
C6_FailedDeliveryKeepsReservation ==
    [][ /\ (pc = "deliver" /\ Cur.orderId \in failed' /\ i < Len(orders)) =>
              /\ pc' = "filter"
              /\ i' = i + 1
              /\ orders' = orders
        /\ \A o \in failed' :
              /\ held'[o] # {}
              /\ BoundTo(inv', o) = held'[o]
              /\ \A u \in held'[o] : inv'[u].status = "reserved"
      ]_vars

\* C6 witness: the delivery of the first order of a batch failed, the second
\* order got its own units sold, and the first order's units are still held.
C6_Witness ==
    /\ pc = "idle"
    /\ \E o1, o2 \in OrderIds :
          /\ o1 \in failed
          /\ o2 \in finalized
          /\ held[o1] # {}
          /\ SoldTo(inv, o2) # {}

\* C7 (as claimed): while orders of the batch remain, no step of the
\* processing loop (idempotency check, extraction, reservation, delivery,
\* mark-sold) ends the poll.
C7_FailureDoesNotAbortBatch ==
    [][ ((pc = "filter" \/ Processing) /\ i < Len(orders)) => pc' # "idle" ]_vars

\* C8: an order that fails the eligibility filter is never passed to
\* reserve_accounts, delivery or mark-sold: the filter step leaves inventory
\* and gateway untouched, and every order being processed is eligible.
C8_IneligibleNeverReserved ==
    [][ /\ (pc = "filter" /\ FailsFilter(Cur)) =>
              /\ ~Processing'
              /\ inv' = inv
              /\ history' = history
        /\ Processing' => ~FailsFilter(orders'[i'])
      ]_vars

\* C8 witness: the first order of the batch was ineligible, its ledger record
\* is written, units are free, and the worker is at the second order.
C8_Witness ==
    /\ pc = "filter"
    /\ i = 2
    /\ FailsFilter(orders[1])
    /\ orders[1].deliveryType # "DIGITAL"
    /\ \E r \in ledger : r.order_id = orders[1].orderId
    /\ FreeUnits(inv) = Units

\* C9: a unit's order id is non-null iff its state is reserved or sold.
C9_OwnerIffClaimed ==
    \A u \in Units : (inv[u].order_id # NULL) <=> (inv[u].status \in Claimed)

\* C9 witness: the pool holds a free, a reserved and a sold unit at once.
C9_Witness ==
    \E u, v, w \in Units :
        /\ inv[u].status = "free"
        /\ inv[v].status = "reserved"
        /\ inv[w].status = "sold"

\* C10: the lifecycle is monotonic: in every step a unit keeps its state, or
\* goes free -> reserved in reserve_accounts, or reserved -> sold in
\* mark_as_sold.
C10_MonotonicLifecycle ==
    [][ \A u \in Units :
          \/ inv'[u].status = inv[u].status
          \/ /\ inv[u].status = "free"
             /\ inv'[u].status = "reserved"
             /\ pc = "reserve"
          \/ /\ inv[u].status = "reserved"
             /\ inv'[u].status = "sold"
             /\ pc = "mark"
      ]_vars

\* C10 witness: mark_as_sold has sold some units while others stay free.
C10_Witness ==
    /\ \E u \in Units : inv[u].status = "sold" /\ inv[u].sold_at > inv[u].reserved_at
    /\ \E u \in Units : inv[u].status = "free"
    /\ finalized # {}

\* The last position of the batch b that carries the order id of position k.
LastOf(b, k) ==
    CHOOSE m \in DOMAIN b :
        /\ b[m].orderId = b[k].orderId
        /\ \A n \in DOMAIN b : b[n].orderId = b[k].orderId => n <= m

RowsOf(tbl, o) == {r \in tbl : r.order_id = o}

InLoop == pc \in {"filter", "reserve", "deliver", "mark"}

\* C11: a unit is sold only if the gateway acknowledged the delivery of the
\* order that owns it: the mark-sold step is entered only from a delivery
\* that returned, and runs only for an acknowledged order whose delivery did
\* not fail.
C11_SoldOnlyAfterAck ==
    [][ /\ \A u \in Units : inv'[u].status = "sold" => inv'[u].order_id \in acked'
        /\ (pc' = "mark" /\ pc # "mark") =>
              /\ pc = "deliver"
              /\ acked' = acked \cup {Cur.orderId}
        /\ pc = "mark" => Cur.orderId \in acked /\ Cur.orderId \notin failed
        /\ inv' # inv /\ pc # "reserve" => pc = "mark" /\ Cur.orderId \in acked
      ]_vars

\* C11 witness: one order is sold after its acknowledged delivery while
\* another, whose delivery failed, still has its units reserved.
C11_Witness ==
    \E o1, o2 \in OrderIds :
        /\ o1 \in acked /\ SoldTo(inv, o1) # {}
        /\ o2 \in failed /\ o2 \notin acked
        /\ BoundTo(inv, o2) # {} /\ SoldTo(inv, o2) = {}

\* C13: re-observing an order whose status equals the stored one writes
\* nothing: the ledger table is unchanged by the upsert.
C13_SameStatusNoWrite ==
    [][ (pc = "ledger" /\ \E r \in ledger : r.order_id = Cur.orderId /\ r.status = Cur.status)
          => ledger' = ledger
      ]_vars

\* C13 witness: the second poll has just re-observed an order with its stored
\* status but another line item; the record still has the old item id and
\* timestamps of the first poll.
C13_Witness ==
    /\ polls = 2
    /\ pc = "ledger"
    /\ i = 2
    /\ \E r \in ledger :
          /\ r.order_id = orders[1].orderId
          /\ r.status = orders[1].status
          /\ r.id # orders[1].itemId
          /\ r.last_updated_at <= ReadsPerPoll

\* C14: within a poll the ledger loop finishes before the processing loop
\* starts (it leaves the ledger phase only with the upsert of the last order,
\* writes no inventory, and processing writes no ledger), and orders are
\* processed one after another: every processing step stays on its order or
\* moves to the next one.
C14_LedgerBeforeReserveSequential ==
    [][ /\ (pc = "ledger" /\ InLoop') => i = Len(orders) /\ i' = 1 /\ pc' = "filter"
        /\ (pc = "ledger" /\ pc' = "ledger") => i' = i + 1 /\ orders' = orders
        /\ pc = "ledger" => inv' = inv
        /\ InLoop => ledger' = ledger
        /\ InLoop' => \A k \in DOMAIN orders' : RowsOf(ledger', orders'[k].orderId) # {}
        /\ (InLoop /\ InLoop') =>
              /\ orders' = orders
              /\ \/ i' = i /\ pc # "mark" /\ pc' # "filter"
                 \/ i' = i + 1 /\ pc' = "filter" /\ accounts' = {}
      ]_vars

\* C14 witness: the first order of a two-order batch is finalized and the
\* second, with another order id, is at its reservation.
C14_Witness ==
    /\ polls = 1
    /\ pc = "reserve"
    /\ i = 2
    /\ orders[1].orderId # orders[2].orderId
    /\ orders[1].orderId \in finalized

\* C15: when get_orders raises, the poll ends with ledger and inventory as
\* they were, the worker is back in main_loop, and the next cycle can call
\* the source again.
C15_SourceFailureAbortsPoll ==
    [][ /\ (polls' # polls /\ fetchFailed') =>
              /\ inv' = inv
              /\ ledger' = ledger
              /\ history' = history
              /\ pc' = "idle"
        /\ (fetchFailed /\ polls < MaxPolls) => ENABLED GetOrders
      ]_vars

\* C15 witness: the second poll's get_orders raised while the tables hold
\* the records and reservations of the first poll.
C15_Witness ==
    /\ fetchFailed
    /\ polls = 2
    /\ ledger # {}
    /\ \E u \in Units : inv[u].status = "sold"
    /\ \E u \in Units : inv[u].status = "reserved"

\* C16: a reservation that does not return rows (a datastore error at any
\* statement of the transaction, or the insufficient-inventory return) leaves
\* every unit as it was, and the processing loop goes on to the next order.
C16_ReservationErrorRollsBack ==
    [][ (pc = "reserve" /\ pc' # "deliver") =>
          /\ inv' = inv
          /\ i < Len(orders) => pc' = "filter" /\ i' = i + 1 /\ orders' = orders
          /\ i = Len(orders) => pc' = "idle"
      ]_vars

\* C16 witness: the first order wanted 1 unit with units free, is neither
\* reserved nor recorded as deferred, and the worker is at the second order:
\* its reserve_accounts call raised.
C16_Witness ==
    /\ pc = "filter"
    /\ i = 2
    /\ Eligible(orders[1])
    /\ orders[1].itemId # NULL
    /\ CountOf(orders[1]) = 1
    /\ BoundTo(inv, orders[1].orderId) = {}
    /\ FreeUnits(inv) = Units
    /\ deferredAt[orders[1].orderId] = 0

\* C17: a deferral leaves no trace and the order is retried: the deferring
\* step changes no unit; an order deferred and never reserved since has no
\* unit bound to it, so the idempotency check lets it through; and when it
\* reaches reserve_accounts with at least count units free, the call returns
\* rows, not None.
C17_DeferredOrderRetried ==
    [][ /\ deferredAt' # deferredAt => inv' = inv
        /\ (InLoop /\ deferredAt[Cur.orderId] > 0 /\ held[Cur.orderId] = {}) =>
              BoundTo(inv, Cur.orderId) = {}
        /\ (pc = "reserve" /\ deferredAt[Cur.orderId] > 0
            /\ CountOf(Cur) <= Cardinality(FreeUnits(inv))) =>
              \A S \in SelectFree(inv, CountOf(Cur)) :
                 ~reserve_accounts(inv, Cur.orderId, CountOf(Cur), S, ReserveTime).none
      ]_vars

\* C17 witness: an order deferred in the first poll has its units reserved in
\* the second.
C17_Witness ==
    /\ polls = 2
    /\ pc = "deliver"
    /\ deferredAt[Cur.orderId] = 1
    /\ accounts # {}
    /\ BoundTo(inv, Cur.orderId) = accounts

\* C19: the ledger holds one record per order id; once the ledger loop of a
\* poll is done, every order of the batch has its record and the stored
\* status is that of its last observation in the batch; no step changes the
\* first-seen timestamp of a record.
C19_OneRecordLastStatusWins ==
    [][ /\ \A r1, r2 \in ledger' : r1.order_id = r2.order_id => r1 = r2
        /\ InLoop' =>
              \A k \in DOMAIN orders' :
                 \E r \in ledger' :
                    /\ r.order_id = orders'[k].orderId
                    /\ r.status = orders'[LastOf(orders', k)].status
        /\ \A r \in ledger :
              \E r2 \in ledger' :
                 r2.order_id = r.order_id /\ r2.first_seen_at = r.first_seen_at
        /\ \A r2 \in ledger' :
              (\A r \in ledger : r.order_id # r2.order_id) =>
                 r2.first_seen_at = UpsertTime /\ r2.order_id = Cur.orderId
      ]_vars

\* C19 witness: the second poll observed one order id twice with different
\* statuses; its single record, first seen in the first poll, has the status
\* of the second observation.
C19_Witness ==
    /\ polls = 2
    /\ pc = "filter"
    /\ i = 1
    /\ Len(orders) = 2
    /\ orders[1].orderId = orders[2].orderId
    /\ orders[1].status # orders[2].status
    /\ \E r \in ledger :
          /\ r.order_id = orders[2].orderId
          /\ r.status = orders[2].status
          /\ r.first_seen_at <= ReadsPerPoll
          /\ r.last_updated_at > ReadsPerPoll

\* An acknowledged order whose units are not all sold and which is not at
\* its mark-sold step.
Stuck(o) ==
    /\ o \in acked
    /\ BoundTo(inv, o) # SoldTo(inv, o)
    /\ ~(pc = "mark" /\ Cur.orderId = o)

\* C20 (as claimed): an order whose delivery was acknowledged is at its
\* mark-sold step or has all its units sold; it is never left with reserved
\* units.
C20_DeliveredUnitsGetSold ==
    \A o \in OrderIds : ~Stuck(o)

\* Once an acknowledged order is left with reserved units, it stays so in
\* every later step of every poll.
C20_StuckIsPermanent ==
    [][ \A o \in OrderIds : Stuck(o) => Stuck(o)' ]_vars

\* C12: mark_as_sold is idempotent: the second call leaves state, owner and
\* reservation time of every unit as the first call left them, and neither
\* call changes a unit that is not bound to the order.
C12_MarkSoldIdempotent ==
    [][ /\ pc = "mark2" =>
              \A u \in Units :
                 /\ inv'[u].status = inv[u].status
                 /\ inv'[u].order_id = inv[u].order_id
                 /\ inv'[u].reserved_at = inv[u].reserved_at
        /\ pc \in {"mark1", "mark2"} =>
              \A u \in Units : inv[u].order_id # Cur.orderId => inv'[u] = inv[u]
        /\ pc = "mark1" =>
              \A u \in Units : inv[u].order_id = Cur.orderId => inv'[u].status = "sold"
      ]_vars

\* C12 witness: after the second call the order's unit is sold with the
\* second call's timestamp, next to a reserved unit of another order and a
\* free unit, both as they were.
C12_Witness ==
    /\ pc = "marked"
    /\ \E u, v, w \in Units :
          /\ inv[u].order_id = Cur.orderId
          /\ inv[u].status = "sold"
          /\ inv[u].sold_at = SoldTime + 1
          /\ inv[v].order_id \notin {NULL, Cur.orderId}
          /\ inv[v].status = "reserved"
          /\ inv[w] = FreeRow

\* The rows connection c has selected or reserved.
Claim(c) == IF conn[c].pc \in {"selected", "updated", "rows"} THEN conn[c].sel ELSE {}

RECURSIVE SumClaims(_)
SumClaims(C) ==
    IF C = {} THEN 0
    ELSE LET c == CHOOSE x \in C : TRUE
         IN  Cardinality(Claim(c)) + SumClaims(C \ {c})

\* C18: concurrent reservations exclude each other from the SELECT to the
\* commit: at most one connection is inside its transaction, the row sets of
\* two connections never overlap, every selected row is free or reserved by
\* the connection that selected it, and together they reserve no more units
\* than were free.
C18_ConcurrentReservationsExclusive ==
    /\ Cardinality({c \in Conns : InTransaction(c)}) <= 1
    /\ \A c \in Conns : InTransaction(c) => lock = c
    /\ \A c1, c2 \in Conns : c1 # c2 => Claim(c1) \cap Claim(c2) = {}
    /\ \A c \in Conns : \A u \in Claim(c) : inv[u].order_id \in {NULL, c}
    /\ \A c \in Conns : conn[c].pc = "rows" => BoundTo(inv, c) = conn[c].sel
    /\ SumClaims(Conns) <= Cardinality({u \in Units : inv[u].order_id # OtherOrder})

\* C18 witness: two connections have both committed a reservation.
C18_Witness ==
    \E c1, c2 \in Conns :
        /\ c1 # c2
        /\ conn[c1].pc = "rows" /\ conn[c1].sel # {}
        /\ conn[c2].pc = "rows" /\ conn[c2].sel # {}
        /\ \E u \in Units : inv[u].order_id = OtherOrder

====
